---- MODULE Spec2Model ----
(***************************************************************************)
(* Model of pinymotion.py: the motion decision engine                      *)
(* (MotionVectorReader) and the circular-buffer recording controller       *)
(* (MotionRecorder).                                                       *)
(*                                                                         *)
(* A motion-vector frame is a function from macroblock cells <<row, col>>  *)
(* to vectors <<x, y>>; a magnitude field is a function from the same      *)
(* cells to 0..255.  The shape of a frame is the DOMAIN of the function,   *)
(* as the shape of a numpy array is part of the array.                     *)
(***************************************************************************)
EXTENDS Integers, Sequences, FiniteSets, TLC

VARIABLES
    \* ---- MotionVectorReader (the engine) ----
    motionlength,   \* self.motionlength
    area,           \* self.area
    frames,         \* self.frames
    trigger,        \* MotionVectorReader.trigger (class-level threading.Event): is_set()
    last_frames,    \* self._last_frames, a deque(maxlen=frames) of booleans
    field,          \* self.field; the empty function until analyse has assigned it
    \* ---- what the last analyse call computed (its locals) ----
    raw,            \* a, the clipped magnitude field before the cleanup
    lab,            \* [labels, count], the result of ndimage.label
    sizes,          \* sizes
    largest,        \* largest
    motion,         \* motion
    pre,            \* self.motion() as the call started
    op,             \* the operation that acted last
    hist,           \* every motion flag analyse has computed since the engine was built
    \* ---- the analysis thread and the overlay thread (motion_overlay) ----
    an_pc,          \* the statement of analyse the analysis thread is at: "idle", "assigned"
    ov,             \* the overlay thread: "run", or "dead" when an exception ended it
    ov_a,           \* the local a of motion_overlay: the field it read last
    \* ---- the session ----
    recording,      \* camera.recording
    main,           \* the thread that runs capture(): "with", "stopped", "exited"
    \* ---- MotionRecorder (the controller thread, run) ----
    pc,             \* the statement of run / save_buffer / append_buffer it is at
    exc,            \* the exception propagating through run, or "none"
    output,         \* the local output: the number of the sink, 0 for None
    out_ref,        \* self._output: the number of the sink, 0 for None
    led,            \* camera.led as run sets it
    buf,            \* the local buf of a drain: the chunk read, <<>> for b''
    sinks,          \* the files opened so far: [open, data], data the chunk ids written
    \* ---- self._stream, the PiCameraCircularIO ----
    stream,         \* its chunks, oldest first: [id, hdr], hdr for an sps_header frame
    pos,            \* its position, in chunks; one position serves reads and writes
    lock,           \* stream.lock: "free" or the thread that holds it
    nextid,         \* the id of the next chunk the encoder writes
    \* ---- history ----
    evicted,        \* ids of the chunks the ring dropped or overwrote on a write
    cut,            \* ids of the chunks a truncate removed
    skipped,        \* ids of the chunks before the cursor as save_buffer began to read
    cycle,          \* ids due to the current sink: from the cursor of the initial drain on
    seen_next,      \* nextid as the last read1 of a drain returned b''
    found,          \* the search of save_buffer reached its break: a header frame was in the ring
    at_call         \* trigger.is_set() as the pending self._motion.wait of run was called

engineVars == <<motionlength, area, frames, trigger, last_frames, field>>
callVars == <<raw, lab, sizes, largest, motion, pre, hist>>
sessionVars == <<recording, main>>
runVars == <<pc, exc, output, out_ref, led, buf, sinks>>
streamVars == <<stream, pos, lock, nextid>>
overlayVars == <<an_pc, ov, ov_a>>
historyVars == <<evicted, cut, skipped, cycle, seen_next, found, at_call>>
recorderVars == <<runVars, streamVars, historyVars>>
vars == <<engineVars, callVars, op, sessionVars, overlayVars, recorderVars>>

\* ------------------------------------------------------------------ bounds
\* Calls of analyse followed in one session.
MaxFrames == 5
\* Largest area threshold and largest frame threshold configured.
MaxArea == 3
MaxThreshold == 3
\* Chunks the encoder writes, chunks the ring holds, files the controller opens.
MaxChunks == 3
RingSize == 2
MaxSinks == 2

\* ------------------------------------------------- constants of the program
\* MotionRecorder.motionlength, MotionRecorder.area, MotionRecorder.frames
DefaultMotionLength == 10
DefaultArea == 25
DefaultFrames == 4
\* .clip(0, 255).astype(np.uint8)
MaxMagnitude == 255

\* ----------------------------------------------------------------- helpers
Max2(a, b) == IF a >= b THEN a ELSE b

\* An array held in memory: the function f with its values computed once,
\* where it is built, instead of at every use.
Array(f) == f @@ [c \in {} |-> 0]

\* floor(sqrt(n)), capped at MaxMagnitude
ISqrtClip(n) ==
    IF n >= MaxMagnitude * MaxMagnitude THEN MaxMagnitude
    ELSE CHOOSE k \in 0..MaxMagnitude : k * k <= n /\ (k + 1) * (k + 1) > n

\* np.sqrt(x^2 + y^2).clip(0, 255).astype(np.uint8) of one macroblock
Magnitude(v) == ISqrtClip(v[1] * v[1] + v[2] * v[2])

\* the magnitude field of a frame of vectors
Magnitudes(vecs) == Array([c \in DOMAIN vecs |-> Magnitude(vecs[c])])

\* ActiveMask, with >= for >
ActiveMaskGeq(a, ml) == Array([c \in DOMAIN a |-> a[c] >= ml])

\* mask = (a > self.motionlength)
ActiveMask(a, ml) == Array([c \in DOMAIN a |-> a[c] > ml])

\* ndimage.label's default structuring element in two dimensions: the cross,
\* that is, the four edge neighbours of a cell.
Adjacent(c, d) ==
    \/ c[1] = d[1] /\ (c[2] = d[2] + 1 \/ d[2] = c[2] + 1)
    \/ c[2] = d[2] /\ (c[1] = d[1] + 1 \/ d[1] = c[1] + 1)

\* raster (C) order of the cells of an array
RasterBefore(c, d) == c[1] < d[1] \/ (c[1] = d[1] /\ c[2] < d[2])

RECURSIVE Flood(_, _)
\* the cells of S connected to the cells of seen
Flood(S, seen) ==
    LET nxt == {d \in S \ seen : \E e \in seen : Adjacent(d, e)}
    IN  IF nxt = {} THEN seen ELSE Flood(S, seen \cup nxt)

RECURSIVE LabelFrom(_, _, _)
\* labels the features of the cells in todo, in raster order of their first
\* cell, from label k + 1 on; done is the labelling so far
LabelFrom(todo, k, done) ==
    IF todo = {} THEN [labels |-> done, count |-> k]
    ELSE LET first == CHOOSE c \in todo : \A d \in todo : c = d \/ RasterBefore(c, d)
             comp == Flood(todo, {first})
         IN  LabelFrom(todo \ comp, k + 1,
                       Array([c \in DOMAIN done |-> IF c \in comp THEN k + 1 ELSE done[c]]))

\* labels, count = ndimage.label(mask): label 0 is the background
Label(mask) ==
    LabelFrom({c \in DOMAIN mask : mask[c]}, 0, Array([c \in DOMAIN mask |-> 0]))

\* Sizes, counting the cells of every label instead of summing mask over them
SizesOfLabels(mask, labels, count) ==
    Array([k \in 0..count |-> Cardinality({c \in DOMAIN labels : labels[c] = k})])

\* sizes = ndimage.sum(mask, labels, range(count + 1)): for every label, the
\* background's label 0 included, the sum of mask over the cells with that label
Sizes(mask, labels, count) ==
    Array([k \in 0..count |-> Cardinality({c \in DOMAIN labels : labels[c] = k /\ mask[c]})])

\* largest = np.sort(sizes)[-1]
Largest(sz) ==
    CHOOSE m \in {sz[k] : k \in DOMAIN sz} : \A k \in DOMAIN sz : sz[k] <= m

\* Cleaned, without the floor of two blocks
CleanedNoFloor(a, sz, labels, lg) ==
    [c \in DOMAIN a |-> IF sz[labels[c]] < lg THEN 0 ELSE a[c]]

\* mask = (sizes < max(largest, 2)); mask = mask[labels]; a[mask] = 0
Cleaned(a, sz, labels, lg) ==
    [c \in DOMAIN a |-> IF sz[labels[c]] < Max2(lg, 2) THEN 0 ELSE a[c]]

\* motion = (largest >= self.area)
FrameMotion(lg, minarea) == lg >= minarea

\* DequeAppend, of a deque without maxlen
DequeAppendUnbounded(q, x, n) == Append(q, x)

\* deque(maxlen=n).append(x)
DequeAppend(q, x, n) ==
    IF n = 0 THEN q
    ELSE IF Len(q) >= n THEN Append(Tail(q), x)
    ELSE Append(q, x)

RECURSIVE CountTrue(_)
\* self._last_frames.count(True)
CountTrue(q) ==
    IF q = <<>> THEN 0 ELSE (IF Head(q) THEN 1 ELSE 0) + CountTrue(Tail(q))

\* Debounce, with the offset test tried on every frame the onset test fails on
DebounceFlat(trig, m, q, n) ==
    IF m /\ ~trig /\ CountTrue(q) >= n THEN TRUE
    ELSE IF trig /\ CountTrue(q) < n THEN FALSE
    ELSE trig

\* Debounce, with > for >= in the onset test
DebounceStrict(trig, m, q, n) ==
    IF m
    THEN (IF ~trig /\ CountTrue(q) > n THEN TRUE ELSE trig)
    ELSE (IF trig /\ CountTrue(q) < n THEN FALSE ELSE trig)

\* Debounce, without the trailing detection of lines 109-110
DebounceLatched(trig, m, q, n) ==
    IF m /\ ~trig /\ CountTrue(q) >= n THEN TRUE ELSE trig

\* lines 103-110: the trigger after the frame's flag m has been appended to q
Debounce(trig, m, q, n) ==
    IF m
    THEN (IF ~trig /\ CountTrue(q) >= n THEN TRUE ELSE trig)
    ELSE (IF trig /\ CountTrue(q) < n THEN FALSE ELSE trig)

\* the empty array: self.field before analyse has assigned it
NoField == [c \in {} |-> 0]

\* the value of lab before ndimage.label has run
NoLabels == [labels |-> NoField, count |-> 0]

\* MotionVectorReader.analyse(a), on the engine's variables and the call's
\* locals, statement by statement
analyse(vecs) ==
    /\ pre' = trigger
    /\ raw' = Magnitudes(vecs)
    /\ lab' = Label(ActiveMask(raw', motionlength))
    /\ sizes' = Sizes(ActiveMask(raw', motionlength), lab'.labels, lab'.count)
    /\ largest' = Largest(sizes')
    /\ field' = Cleaned(raw', sizes', lab'.labels, largest')
    /\ motion' = FrameMotion(largest', area)
    /\ last_frames' = DequeAppend(last_frames, motion', frames)
    /\ trigger' = Debounce(trigger, motion', last_frames', frames)
    /\ op' = "analyse"
    /\ UNCHANGED <<motionlength, area, frames>>

\* MotionVectorReader.__init__: a new engine.  trigger is an attribute of the
\* class, shared by every engine of the process, and keeps its state.
NewEngine(ml, ar, fr) ==
    /\ motionlength' = ml
    /\ area' = ar
    /\ frames' = fr
    /\ last_frames' = <<>>
    /\ field' = NoField
    /\ raw' = NoField
    /\ lab' = NoLabels
    /\ sizes' = <<>>
    /\ largest' = 0
    /\ motion' = FALSE
    /\ pre' = FALSE
    /\ hist' = <<>>
    /\ UNCHANGED trigger

\* ---------------------------------------------------------------- the session
\* MotionRecorder.__exit__, first statement: camera.stop_recording()
StopRecording ==
    /\ main = "with"
    /\ recording
    /\ recording' = FALSE
    /\ main' = "stopped"
    /\ op' = "stop_recording"
    /\ UNCHANGED <<engineVars, callVars, overlayVars, recorderVars>>

\* ExitSet, with clear() for set()
ExitClear ==
    /\ main = "stopped"
    /\ trigger' = FALSE
    /\ main' = "exited"
    /\ op' = "exit"
    /\ UNCHANGED <<motionlength, area, frames, last_frames, field, callVars, recording>>
    /\ UNCHANGED <<overlayVars, recorderVars>>

\* MotionRecorder.__exit__, second statement: self._motion.set()
ExitSet ==
    /\ main = "stopped"
    /\ trigger' = TRUE
    /\ main' = "exited"
    /\ op' = "exit"
    /\ UNCHANGED <<motionlength, area, frames, last_frames, field, callVars, recording>>
    /\ UNCHANGED <<overlayVars, recorderVars>>

\* MotionRecorder.__enter__ / start_camera of another MotionRecorder of the
\* process, after the previous one has exited
StartCamera ==
    /\ main = "exited"
    /\ NewEngine(motionlength, area, frames)
    /\ recording' = TRUE
    /\ main' = "with"
    /\ op' = "start_camera"
    /\ UNCHANGED <<overlayVars, recorderVars>>

\* the statements of run between the drains of one recording
FlushPcs == {"sb_ret", "fl_test", "fl_wait", "ab"}

\* ------------------------------------------------- the PiCameraCircularIO
\* The stream keeps one position for reads and writes, as io.BytesIO does.  A
\* chunk is one write of the encoder; the cursor of this program only ever
\* rests between chunks (read1 returns the rest of a chunk, seek goes to 0 or
\* to the start of a frame), so positions are counted in chunks.

\* the chunks of a sequence, as the set of their ids
Ids(chunks) == {chunks[i].id : i \in DOMAIN chunks}

\* stream.write(b) of the encoder thread, under stream.lock: the stream after
\* the chunk is stored at the position, before the ring is cut to its size
Stored(chunk) ==
    IF pos >= Len(stream) THEN Append(stream, chunk)
    ELSE [stream EXCEPT ![pos + 1] = chunk]

\* the encoder writes a chunk: appended when the position is at the end,
\* written over the chunk at the position otherwise; then the oldest chunks
\* are dropped while the ring is over its size, and the position moves with them
Write ==
    /\ recording
    /\ lock = "free"
    /\ nextid <= MaxChunks
    /\ \E h \in BOOLEAN :
         LET st == Stored([id |-> nextid, hdr |-> h])
             over == Max2(Len(st) - RingSize, 0)
         IN  /\ stream' = SubSeq(st, over + 1, Len(st))
             /\ pos' = Max2(pos + 1 - over, 0)
             /\ evicted' = evicted \cup (Ids(stream) \ Ids(stream'))
             /\ cycle' = IF pc \in FlushPcs THEN Append(cycle, nextid) ELSE cycle
    /\ nextid' = nextid + 1
    /\ UNCHANGED <<lock, cut, skipped, seen_next, found, at_call, runVars>>
    /\ UNCHANGED <<engineVars, callVars, op, sessionVars, overlayVars>>

\* the positions of the sps_header frames of the stream, oldest first
Headers == {i \in DOMAIN stream : stream[i].hdr}

\* SeekFirstHeader, stopping at the newest header frame instead of the oldest
SeekLastHeader ==
    IF Headers = {} THEN pos
    ELSE (CHOOSE i \in Headers : \A j \in Headers : i >= j) - 1

\* for frame in stream.frames: if frame.frame_type == sps_header:
\*     stream.seek(frame.position); break
\* the position after the loop: the start of the oldest header frame, or the
\* position as it was when the stream holds none
SeekFirstHeader ==
    IF Headers = {} THEN pos
    ELSE (CHOOSE i \in Headers : \A j \in Headers : i <= j) - 1

\* ------------------------------------------------------- the controller thread
\* a step of run that touches nothing but the thread's own position
Goto(label) ==
    /\ pc' = label
    /\ UNCHANGED <<exc, output, out_ref, led, buf, sinks, streamVars, historyVars>>

\* line 183: while self._camera.recording
Loop ==
    /\ pc = "loop"
    /\ pc' = IF recording THEN "wait" ELSE "done"
    /\ at_call' = IF recording THEN trigger ELSE at_call
    /\ UNCHANGED <<exc, output, out_ref, led, buf, sinks, streamVars>>
    /\ UNCHANGED <<evicted, cut, skipped, cycle, seen_next, found>>

\* WaitTrigger, returning True when the flag differs from what it was at the call
WaitTriggerOnChange ==
    /\ pc = "wait"
    /\ pc' = IF trigger # at_call THEN "check" ELSE "loop"
    /\ at_call' = IF trigger # at_call THEN at_call ELSE FALSE
    /\ UNCHANGED <<exc, output, out_ref, led, buf, sinks, streamVars>>
    /\ UNCHANGED <<evicted, cut, skipped, cycle, seen_next, found>>

\* line 185: if self._motion.wait(self.prebuffer): Event.wait returns True when
\* the flag is set, False when the timeout passes with the flag clear
WaitTrigger ==
    /\ pc = "wait"
    /\ pc' = IF trigger THEN "check" ELSE "loop"
    /\ at_call' = IF trigger THEN at_call ELSE FALSE
    /\ UNCHANGED <<exc, output, out_ref, led, buf, sinks, streamVars>>
    /\ UNCHANGED <<evicted, cut, skipped, cycle, seen_next, found>>

\* lines 186-187: if self._motion.motion(): self._camera.led = True
CheckMotion ==
    /\ pc = "check"
    /\ pc' = IF trigger THEN "save" ELSE "loop"
    /\ led' = trigger
    /\ at_call' = FALSE
    /\ UNCHANGED <<exc, output, out_ref, buf, sinks, streamVars>>
    /\ UNCHANGED <<evicted, cut, skipped, cycle, seen_next, found>>

\* the statements that end run with the exception e: the finally of line 207
\* puts the led out on the way
Raise(e) ==
    /\ exc' = e
    /\ led' = FALSE
    /\ pc' = "dead"

\* SaveOpen, without the test of lines 215-216
SaveOpenUnchecked ==
    /\ pc = "save"
    /\ \/ /\ Len(sinks) < MaxSinks
          /\ sinks' = Append(sinks, [open |-> TRUE, data |-> <<>>])
          /\ output' = Len(sinks) + 1
          /\ pc' = "sb_lock"
          /\ UNCHANGED <<exc, led>>
       \/ /\ Raise("OSError")
          /\ UNCHANGED <<output, sinks>>
    /\ UNCHANGED <<out_ref, buf, streamVars, historyVars>>

\* save_buffer, lines 215-219: None, None when the camera is not recording
\* (run then falls through to the finally of line 207 and to line 210); else
\* the file is opened, which can fail with an OSError that run does not catch
SaveOpen ==
    /\ pc = "save"
    /\ \/ /\ ~recording
          /\ output' = 0
          /\ pc' = "cooldown"
          /\ led' = FALSE
          /\ UNCHANGED <<exc, sinks>>
       \/ /\ recording
          /\ Len(sinks) < MaxSinks
          /\ sinks' = Append(sinks, [open |-> TRUE, data |-> <<>>])
          /\ output' = Len(sinks) + 1
          /\ pc' = "sb_lock"
          /\ UNCHANGED <<exc, led>>
       \/ /\ recording
          /\ Raise("OSError")
          /\ UNCHANGED <<output, sinks>>
    /\ UNCHANGED <<out_ref, buf, streamVars, historyVars>>

\* with stream.lock: (lines 220 and 243)
Acquire(from, to) ==
    /\ pc = from
    /\ lock = "free"
    /\ lock' = "controller"
    /\ pc' = to
    /\ UNCHANGED <<exc, output, out_ref, led, buf, sinks, stream, pos, nextid, historyVars>>

SbLock == Acquire("sb_lock", "sb_find")

\* lines 222-226: seek to the first header frame, if there is one
SbFind ==
    /\ pc = "sb_find"
    /\ pos' = SeekFirstHeader
    /\ skipped' = skipped \cup Ids(SubSeq(stream, 1, pos'))
    /\ cycle' = [i \in 1..(Len(stream) - pos') |-> stream[pos' + i].id]
    /\ found' = (Headers # {})
    /\ pc' = "sb_read"
    /\ UNCHANGED <<exc, output, out_ref, led, buf, sinks, stream, lock, nextid>>
    /\ UNCHANGED <<evicted, cut, seen_next, at_call>>

\* One turn of the loop of lines 228-232 and 244-248:
\*     buf = stream.read1(); if not buf: break; output.write(buf)
\* read1 returns b'' at the end of the stream, and the loop ends; else it
\* returns the chunk at the position and moves past it, and output.write adds
\* the chunk to the file or fails with an OSError, which leaves the with block
\* (the lock is released) and the function.
Drain(from, empty, failed) ==
    /\ pc = from
    /\ IF pos >= Len(stream)
       THEN /\ buf' = <<>>
            /\ seen_next' = nextid
            /\ pc' = empty
            /\ UNCHANGED <<pos, sinks, exc, lock>>
       ELSE /\ buf' = <<stream[pos + 1].id>>
            /\ pos' = pos + 1
            /\ UNCHANGED seen_next
            /\ \/ /\ sinks' = [sinks EXCEPT ![output].data = @ \o buf']
                  /\ pc' = from
                  /\ UNCHANGED <<exc, lock>>
               \/ /\ exc' = "OSError"
                  /\ lock' = "free"
                  /\ pc' = failed
                  /\ UNCHANGED sinks
    /\ UNCHANGED <<output, out_ref, led, stream, nextid>>
    /\ UNCHANGED <<evicted, cut, skipped, cycle, found, at_call>>

\* stream.seek(0) (lines 233 and 249)
SeekStart(from, to) ==
    /\ pc = from
    /\ pos' = 0
    /\ pc' = to
    /\ UNCHANGED <<exc, output, out_ref, led, buf, sinks, stream, lock, nextid, historyVars>>

\* stream.truncate() (lines 234 and 250): the stream is cut at the position;
\* the with block ends and the lock is released
Truncate(from, to) ==
    /\ pc = from
    /\ stream' = SubSeq(stream, 1, pos)
    /\ cut' = cut \cup Ids(SubSeq(stream, pos + 1, Len(stream)))
    /\ lock' = "free"
    /\ pc' = to
    /\ UNCHANGED <<exc, output, out_ref, led, buf, sinks, pos, nextid>>
    /\ UNCHANGED <<evicted, skipped, cycle, seen_next, found, at_call>>

SbDrain == Drain("sb_read", "sb_seek0", "sb_failed")

\* an OSError out of save_buffer is not a PiCameraError: the finally of line
\* 207 runs and the exception ends run; the file stays open
SbFailed ==
    /\ pc = "sb_failed"
    /\ Raise(exc)
    /\ found' = FALSE
    /\ UNCHANGED <<output, out_ref, buf, sinks, streamVars>>
    /\ UNCHANGED <<evicted, cut, skipped, cycle, seen_next, at_call>>

SbSeekStart == SeekStart("sb_seek0", "sb_trunc")

SbTruncate == Truncate("sb_trunc", "sb_ret")

\* lines 191-193: output is not None: self._output = output
SetOutput ==
    /\ pc = "sb_ret"
    /\ out_ref' = output
    /\ pc' = "fl_test"
    /\ UNCHANGED <<exc, output, led, buf, sinks, streamVars, historyVars>>

\* line 197: while self._motion.motion()
FlushTest ==
    /\ pc = "fl_test"
    /\ Goto(IF trigger THEN "fl_wait" ELSE "fl_close")

\* MotionRecorder.wait (lines 155-159): camera.wait_recording(timeout) returns
\* after the timeout, raises PiCameraNotRecording (caught) when the camera is
\* not recording, or raises the error the encoder met (not caught)
WaitRecording(from, to, failed) ==
    /\ pc = from
    /\ \/ /\ pc' = to
          /\ UNCHANGED exc
       \/ /\ recording
          /\ exc' = "PiCameraError"
          /\ pc' = failed
    /\ UNCHANGED <<output, out_ref, led, buf, sinks, streamVars, historyVars>>

\* line 198: self.wait(self.prebuffer / 2)
FlushWait == WaitRecording("fl_wait", "ab", "fl_close")

\* append_buffer, lines 240-243: return when the camera is not recording
AppendSkip ==
    /\ pc = "ab"
    /\ ~recording
    /\ Goto("fl_test")

AbLock ==
    /\ recording
    /\ Acquire("ab", "ab_read")

\* an OSError out of append_buffer goes through the finally of line 200
AbDrain == Drain("ab_read", "ab_seek0", "fl_close")

AbSeekStart == SeekStart("ab_seek0", "ab_trunc")

AbTruncate == Truncate("ab_trunc", "fl_test")

\* FlushClose, without output.close()
FlushCloseOmitted ==
    /\ pc = "fl_close"
    /\ pc' = "fl_clear"
    /\ UNCHANGED <<exc, output, out_ref, led, buf, sinks, streamVars, historyVars>>

\* line 201, in the finally of the flushing loop: output.close()
FlushClose ==
    /\ pc = "fl_close"
    /\ sinks' = [sinks EXCEPT ![output].open = FALSE]
    /\ pc' = "fl_clear"
    /\ UNCHANGED <<exc, output, out_ref, led, buf, streamVars, historyVars>>

\* FlushClear, without self._output = None
FlushClearKept ==
    /\ pc = "fl_clear"
    /\ led' = FALSE
    /\ pc' = IF exc = "none" THEN "cooldown" ELSE "dead"
    /\ exc' = IF exc = "PiCameraError" THEN "TypeError" ELSE exc
    /\ found' = FALSE
    /\ UNCHANGED <<output, out_ref, buf, sinks, streamVars>>
    /\ UNCHANGED <<evicted, cut, skipped, cycle, seen_next, at_call>>

\* line 202: self._output = None; then, without an exception, lines 203 and
\* 208; with one, the handler of line 204 (for a PiCameraError; its
\* "..." + e raises a TypeError) or none, the finally of line 207, and run ends
FlushClear ==
    /\ pc = "fl_clear"
    /\ out_ref' = 0
    /\ led' = FALSE
    /\ pc' = IF exc = "none" THEN "cooldown" ELSE "dead"
    /\ exc' = IF exc = "PiCameraError" THEN "TypeError" ELSE exc
    /\ found' = FALSE
    /\ UNCHANGED <<output, buf, sinks, streamVars>>
    /\ UNCHANGED <<evicted, cut, skipped, cycle, seen_next, at_call>>

\* line 210: self.wait(self.prebuffer), outside every try
Cooldown == WaitRecording("cooldown", "loop", "cd_failed")

\* the error of the encoder ends run
CooldownFailed ==
    /\ pc = "cd_failed"
    /\ Raise(exc)
    /\ UNCHANGED <<output, out_ref, buf, sinks, streamVars, historyVars>>

\* a statement of MotionRecorder.run, taken by the controller thread
Run(statement) ==
    /\ statement
    /\ UNCHANGED <<engineVars, callVars, op, sessionVars, overlayVars>>

\* MotionRecorder.__init__ and start_camera: the thread at the top of run, the
\* stream empty, no file
InitRecorder ==
    /\ pc = "loop"
    /\ exc = "none"
    /\ output = 0
    /\ out_ref = 0
    /\ led = FALSE
    /\ buf = <<>>
    /\ sinks = <<>>
    /\ stream = <<>>
    /\ pos = 0
    /\ lock = "free"
    /\ nextid = 1
    /\ evicted = {}
    /\ cut = {}
    /\ skipped = {}
    /\ cycle = <<>>
    /\ seen_next = 1
    /\ found = FALSE
    /\ at_call = FALSE

\* ------------------------------------------------------------------- inputs
\* macroblock columns of the frames analysed (two rows)
Cols == 3
Grid == (1..2) \X (1..Cols)

\* vectors of magnitude 0, 5 and 13
VecVals == {<<0, 0>>, <<3, 4>>, <<-5, 12>>}

\* every frame over Grid
AllFrames == [Grid -> VecVals]

Still == <<0, 0>>
Moving == <<-5, 12>>
FrameOf(S) == [c \in Grid |-> IF c \in S THEN Moving ELSE Still]

\* the frames fed to the debounce: no motion, one block, two blocks, every block
DebounceFrames ==
    {FrameOf({}), FrameOf({<<1, 1>>}), FrameOf({<<1, 1>>, <<2, 1>>}), FrameOf(Grid)}

\* ---------------------------------------------------------- specifications
InitEngine(mls, ars, frs) ==
    /\ motionlength \in mls
    /\ area \in ars
    /\ frames \in frs
    /\ trigger = FALSE
    /\ last_frames = <<>>
    /\ field = NoField
    /\ raw = NoField
    /\ lab = NoLabels
    /\ sizes = <<>>
    /\ largest = 0
    /\ motion = FALSE
    /\ pre = FALSE
    /\ hist = <<>>
    /\ op = "init"
    /\ recording = TRUE
    /\ main = "with"
    /\ an_pc = "idle"
    /\ ov = "run"
    /\ ov_a = NoField
    /\ InitRecorder

\* the encoder delivers a frame to the engine
Analyse(inputs, n) ==
    /\ recording
    /\ Len(hist) < n
    /\ \E v \in inputs : analyse(v)
    /\ hist' = Append(hist, motion')
    /\ UNCHANGED <<sessionVars, overlayVars, recorderVars>>

\* The engine over sessions: frames, shutdown, and a new session.
Init == InitEngine({DefaultMotionLength}, 0..MaxArea, 0..MaxThreshold)

Next ==
    \/ Analyse(DebounceFrames, MaxFrames)
    \/ StopRecording
    \/ ExitSet
    \/ StartCamera

Spec == Init /\ [][Next]_vars

\* The analysis of one frame, over every frame of the grid.
\* thresholds below, and equal to, the magnitude 5
MotionLengths == {4, 5}

InitField == InitEngine(MotionLengths, 0..(MaxArea + 1), {DefaultFrames})

NextField == Analyse(AllFrames, 1)

SpecField == InitField /\ [][NextField]_vars

\* The recorder: the controller thread, the encoder writing to the ring and
\* delivering frames to an engine that triggers on one frame with motion, and
\* the shutdown of the session.
RecorderFrames == {FrameOf({}), FrameOf(Grid)}

InitRec == InitEngine({DefaultMotionLength}, {1}, {1})

AnalyseRec ==
    /\ recording
    /\ \E v \in RecorderFrames : analyse(v)
    /\ UNCHANGED <<hist, sessionVars, overlayVars, recorderVars>>

NextRec ==
    \/ AnalyseRec
    \/ Write
    \/ Run(Loop)
    \/ Run(WaitTrigger)
    \/ Run(CheckMotion)
    \/ Run(SaveOpen)
    \/ Run(SbLock)
    \/ Run(SbFind)
    \/ Run(SbDrain)
    \/ Run(SbFailed)
    \/ Run(SbSeekStart)
    \/ Run(SbTruncate)
    \/ Run(SetOutput)
    \/ Run(FlushTest)
    \/ Run(FlushWait)
    \/ Run(AppendSkip)
    \/ Run(AbLock)
    \/ Run(AbDrain)
    \/ Run(AbSeekStart)
    \/ Run(AbTruncate)
    \/ Run(FlushClose)
    \/ Run(FlushClear)
    \/ Run(Cooldown)
    \/ Run(CooldownFailed)
    \/ StopRecording
    \/ ExitSet

SpecRec == InitRec /\ [][NextRec]_vars

\* The recorder with its threads scheduled: the controller thread takes its
\* next statement, and the main thread finishes __exit__, whenever they can.
Controller ==
    Run(\/ Loop \/ WaitTrigger \/ CheckMotion \/ SaveOpen
        \/ SbLock \/ SbFind \/ SbDrain \/ SbFailed \/ SbSeekStart \/ SbTruncate
        \/ SetOutput \/ FlushTest \/ FlushWait \/ AppendSkip
        \/ AbLock \/ AbDrain \/ AbSeekStart \/ AbTruncate
        \/ FlushClose \/ FlushClear \/ Cooldown \/ CooldownFailed)

SpecRecFair == SpecRec /\ WF_vars(Controller) /\ WF_vars(ExitSet)

\* The engine alone in one session: analyse is the only writer of the trigger.
NextDebounce == Analyse(DebounceFrames, MaxFrames)

SpecDebounce == Init /\ [][NextDebounce]_vars

\* The analysis thread, statement by statement, beside the overlay thread.
\* calls of analyse followed
OverlayCalls == 2

\* analyse, lines 80-84: the magnitudes are computed and assigned to self.field
AnalyseAssign ==
    /\ recording
    /\ an_pc = "idle"
    /\ Len(hist) < OverlayCalls
    /\ \E v \in DebounceFrames : raw' = Magnitudes(v)
    /\ pre' = trigger
    /\ field' = raw'
    /\ an_pc' = "assigned"
    /\ UNCHANGED <<motionlength, area, frames, trigger, last_frames>>
    /\ UNCHANGED <<lab, sizes, largest, motion, hist, op>>
    /\ UNCHANGED <<ov, ov_a, sessionVars, recorderVars>>

\* analyse, lines 87-111: the array self.field refers to is cleaned in place,
\* and the debounce follows
AnalyseClean ==
    /\ an_pc = "assigned"
    /\ lab' = Label(ActiveMask(raw, motionlength))
    /\ sizes' = Sizes(ActiveMask(raw, motionlength), lab'.labels, lab'.count)
    /\ largest' = Largest(sizes')
    /\ field' = Cleaned(raw, sizes', lab'.labels, largest')
    /\ motion' = FrameMotion(largest', area)
    /\ last_frames' = DequeAppend(last_frames, motion', frames)
    /\ trigger' = Debounce(trigger, motion', last_frames', frames)
    /\ hist' = Append(hist, motion')
    /\ op' = "analyse"
    /\ an_pc' = "idle"
    /\ UNCHANGED <<motionlength, area, frames, raw, pre>>
    /\ UNCHANGED <<ov, ov_a, sessionVars, recorderVars>>

\* motion_overlay, lines 280-281: a = self._motion.field.  No statement of the
\* class gives the engine a field attribute before analyse assigns one, so the
\* read raises AttributeError until then and the thread ends.
OverlayRead ==
    /\ recording
    /\ ov = "run"
    /\ IF field = NoField
       THEN ov' = "dead" /\ UNCHANGED ov_a
       ELSE ov_a' = field /\ UNCHANGED ov
    /\ UNCHANGED <<engineVars, callVars, op, an_pc, sessionVars, recorderVars>>

NextOverlay ==
    \/ AnalyseAssign
    \/ AnalyseClean
    \/ OverlayRead

SpecOverlay == Init /\ [][NextOverlay]_vars

\* The scenario: ten frames of 6 x 6 macroblocks to a fresh engine with the
\* thresholds of MotionRecorder; frames 3 to 6 hold one region of 30 blocks
\* (the grid without one of its border rows or columns), the others none.
ScenarioGrid == (1..6) \X (1..6)
ScenarioNumbers == 1..10
MotionNumbers == 3..6

\* vectors of magnitude 11, 13, 20 and 181, above the threshold of 10
ScenarioMoving == {<<0, 11>>, <<-5, 12>>, <<0, -20>>, <<-128, -128>>}
\* vectors of magnitude 0 and 10
ScenarioStill == {<<0, 0>>, <<6, 8>>}

ScenarioRegions ==
    {{c \in ScenarioGrid : c[1] # r} : r \in {1, 6}}
        \cup {{c \in ScenarioGrid : c[2] # k} : k \in {1, 6}}

ScenarioFrames(n) ==
    IF n \in MotionNumbers
    THEN {[c \in ScenarioGrid |-> IF c \in R THEN mv ELSE st] :
              R \in ScenarioRegions, mv \in ScenarioMoving, st \in ScenarioStill}
    ELSE {[c \in ScenarioGrid |-> st] : st \in ScenarioStill}

InitScenario == InitEngine({DefaultMotionLength}, {DefaultArea}, {DefaultFrames})

NextScenario ==
    /\ recording
    /\ Len(hist) + 1 \in ScenarioNumbers
    /\ \E v \in ScenarioFrames(Len(hist) + 1) : analyse(v)
    /\ hist' = Append(hist, motion')
    /\ UNCHANGED <<sessionVars, overlayVars, recorderVars>>

SpecScenario == InitScenario /\ [][NextScenario]_vars

\* ------------------------------------------------------ terms of the claims
\* the number of true entries of a window
TrueEntries(q) == Cardinality({i \in DOMAIN q : q[i]})

\* the n most recent flags of h exist and are all true
RecentAllTrue(h, n) == Len(h) >= n /\ \A i \in (Len(h) - n + 1)..Len(h) : h[i]

\* the macroblocks of a magnitude field whose magnitude exceeds ml
ActiveCells(a, ml) == {c \in DOMAIN a : a[c] > ml}

\* two macroblocks share an edge
Near(c, d) ==
    LET dr == IF c[1] >= d[1] THEN c[1] - d[1] ELSE d[1] - c[1]
        dc == IF c[2] >= d[2] THEN c[2] - d[2] ELSE d[2] - c[2]
    IN  dr + dc = 1

RECURSIVE Grow(_, _)
Grow(S, R) ==
    LET more == {d \in S : d \notin R /\ \E e \in R : Near(d, e)}
    IN  IF more = {} THEN R ELSE Grow(S, R \cup more)

\* the connected region of active macroblocks that holds the active macroblock c
RegionOf(a, ml, c) == Grow(ActiveCells(a, ml), {c})

\* the size of the largest connected region, 0 when no macroblock is active
LargestRegion(a, ml) ==
    LET szs == {Cardinality(RegionOf(a, ml, c)) : c \in ActiveCells(a, ml)}
    IN  IF szs = {} THEN 0 ELSE CHOOSE m \in szs : \A k \in szs : k <= m

\* ------------------------------------------------------------------ claims
\* C1 as stated: every analyse call sets the trigger when the frame has motion,
\* the engine is not triggered and the window holds at least frameThreshold
\* true entries; else clears it when the engine is triggered and the window
\* holds fewer, whatever the frame's motion flag; else leaves it.
C1_DebounceAsStated ==
    op = "analyse" =>
        trigger = IF motion /\ ~pre /\ TrueEntries(last_frames) >= frames THEN TRUE
                  ELSE IF pre /\ TrueEntries(last_frames) < frames THEN FALSE
                  ELSE pre

\* C1 amended: as stated, but the trigger is cleared only by a frame without
\* motion; a frame with motion never clears it.
C1_DebounceRule ==
    op = "analyse" =>
        trigger = IF motion /\ ~pre /\ TrueEntries(last_frames) >= frames THEN TRUE
                  ELSE IF ~motion /\ pre /\ TrueEntries(last_frames) < frames THEN FALSE
                  ELSE pre

\* C1 witness: analyse has run on a frame with motion while the engine was
\* triggered and the window held fewer than frameThreshold true entries.
C1_Witness ==
    /\ op = "analyse"
    /\ motion
    /\ pre
    /\ TrueEntries(last_frames) < frames
    /\ trigger

\* C2: the trigger rises only at an analyse call at which the frameThreshold
\* most recent frames all have motion, and falls only at an analyse call at
\* which fewer than frameThreshold of the last frameThreshold frames have.
C2_Hysteresis ==
    op = "analyse" =>
        /\ (~pre /\ trigger) => RecentAllTrue(hist, frames)
        /\ (pre /\ ~trigger) => ~RecentAllTrue(hist, frames)

\* C2 witness: with the largest threshold, the trigger rose at the first call
\* whose recent frames all had motion and has fallen at the frame after it.
C2_Witness ==
    /\ op = "analyse"
    /\ frames = MaxThreshold
    /\ Len(hist) = frames + 1
    /\ RecentAllTrue(SubSeq(hist, 1, frames), frames)
    /\ pre
    /\ ~trigger

\* the number of the frame analysed last
FrameNumber == Len(hist)

\* C3 as stated: in the scenario the trigger becomes true at frame 6, is still
\* true after frames 7, 8 and 9, and becomes false at frame 10.
C3_ScenarioAsStated ==
    /\ FrameNumber \in 0..5 => ~trigger
    /\ FrameNumber \in 6..9 => trigger
    /\ FrameNumber = 10 => ~trigger

\* C3 amended: in the scenario the trigger becomes true at frame 6 and false
\* again at frame 7, the first frame without motion, and stays false to frame 10.
C3_Scenario ==
    /\ FrameNumber \in MotionNumbers => largest = 30 /\ motion
    /\ FrameNumber \in ScenarioNumbers \ MotionNumbers => largest = 0 /\ ~motion
    /\ FrameNumber \in 0..5 => ~trigger
    /\ FrameNumber = 6 => trigger /\ ~pre
    /\ FrameNumber = 7 => ~trigger /\ pre
    /\ FrameNumber \in 8..10 => ~trigger /\ ~pre

\* C3 witness: the tenth frame of the scenario has been analysed.
C3_Witness ==
    /\ op = "analyse"
    /\ hist = <<FALSE, FALSE, TRUE, TRUE, TRUE, TRUE, FALSE, FALSE, FALSE, FALSE>>
    /\ area = DefaultArea /\ frames = DefaultFrames /\ motionlength = DefaultMotionLength
    /\ ~trigger

\* every magnitude of the frame analysed last is at most the vector threshold
NoActiveCell == \A c \in DOMAIN raw : raw[c] <= motionlength

\* C4 as stated: a frame whose magnitudes are all at most vectorThreshold gives
\* largest = 0 and frameMotion = false, and false is what the window receives,
\* for every areaThreshold.
C4_QuietAsStated ==
    (op = "analyse" /\ NoActiveCell) =>
        /\ largest = 0
        /\ ~motion
        /\ last_frames # <<>> /\ ~last_frames[Len(last_frames)]

\* C4 amended: the same, for every areaThreshold of at least 1.
C4_Quiet ==
    (op = "analyse" /\ NoActiveCell /\ area >= 1) =>
        /\ largest = 0
        /\ ~motion
        /\ last_frames # <<>> /\ ~last_frames[Len(last_frames)]

\* C4 witness: a frame with a non-zero magnitude equal to the vector threshold,
\* and none above it, has been analysed.
C4_Witness ==
    /\ op = "analyse"
    /\ NoActiveCell
    /\ area >= 1
    /\ \E c \in DOMAIN raw : raw[c] = motionlength /\ raw[c] > 0
    /\ ~motion

\* C5: frameMotion is true exactly when the largest 4-connected region of
\* macroblocks above the vector threshold has at least areaThreshold blocks;
\* the background is no region.
C5_FrameMotion ==
    op = "analyse" =>
        LET big == LargestRegion(raw, motionlength)
        IN  largest = big /\ (motion <=> big >= area)

\* C5 witness: the only region of the frame has exactly areaThreshold blocks,
\* the rest of the frame is background, and frameMotion is true.
C5_Witness ==
    /\ op = "analyse"
    /\ area >= 2
    /\ Cardinality(ActiveCells(raw, motionlength)) = area
    /\ LargestRegion(raw, motionlength) = area
    /\ \E c \in DOMAIN raw : raw[c] > 0 /\ raw[c] <= motionlength
    /\ motion

\* the macroblock c belongs to a region of at least max(big, 2) blocks
InQualifyingRegion(c, big) ==
    /\ c \in ActiveCells(raw, motionlength)
    /\ Cardinality(RegionOf(raw, motionlength, c)) >= Max2(big, 2)

\* C6: the cleaned field keeps the magnitude of every macroblock of a region of
\* at least max(largest, 2) blocks and is zero everywhere else; so a region of
\* one block is zeroed even when it is the largest.
C6_Cleaned ==
    op = "analyse" =>
        /\ DOMAIN field = DOMAIN raw
        /\ LET big == LargestRegion(raw, motionlength)
           IN  \A c \in DOMAIN raw :
                   field[c] = IF InQualifyingRegion(c, big) THEN raw[c] ELSE 0
        /\ \A c \in ActiveCells(raw, motionlength) :
               Cardinality(RegionOf(raw, motionlength, c)) = 1 => field[c] = 0

\* C6 witness: the largest region of the frame is a single block, it has been
\* zeroed, and the area threshold is one.
C6_Witness ==
    /\ op = "analyse"
    /\ area = 1
    /\ LargestRegion(raw, motionlength) = 1
    /\ motion
    /\ \A c \in DOMAIN field : field[c] = 0

\* ------------------------------------------------ claims on the controller
\* the sinks that are open
OpenSinks == {i \in DOMAIN sinks : sinks[i].open}

\* the ids of the chunks written to some sink
Written == UNION {Ids([i \in DOMAIN sinks[k].data |-> [id |-> sinks[k].data[i]]]) : k \in DOMAIN sinks}

\* the statements of a drain, from the seek to the truncate
DrainPcs == {"sb_find", "sb_read", "sb_seek0", "sb_trunc", "ab_read", "ab_seek0", "ab_trunc"}

\* C7: in every state of the controller at most one output sink is open.
C7_OneSinkOpen == Cardinality(OpenSinks) <= 1

\* C7 witness: after a recording that wrote chunks and was closed, a second
\* sink is open and the controller is flushing to it.
C7_Witness ==
    /\ Len(sinks) = 2
    /\ sinks[1].data # <<>>
    /\ ~sinks[1].open
    /\ sinks[2].open
    /\ pc \in FlushPcs

\* C8, in the form a finite run refutes: when the controller thread has ended,
\* by the end of its loop or by an exception, every sink it opened is closed.
C8_EverySinkClosed ==
    pc \in {"done", "dead"} => OpenSinks = {}

NotEvicted(id) == id \notin evicted

\* C9: between the drains of a recording, the chunks written to the sink
\* followed by the chunks still in the ring are, in order, the chunks that were
\* in the ring from the cursor of the initial drain on followed by every chunk
\* appended since (but those the ring dropped for its size): nothing is lost,
\* duplicated or reordered.
C9_LosslessOrdered ==
    (pc \in FlushPcs /\ output # 0) =>
        sinks[output].data \o [i \in DOMAIN stream |-> stream[i].id]
            = SelectSeq(cycle, NotEvicted)

\* the lock is held through every drain, and no chunk is appended between the
\* last read of a drain and its truncate
CriticalSection ==
    /\ pc \in DrainPcs => lock = "controller"
    /\ pc \in {"sb_seek0", "sb_trunc", "ab_seek0", "ab_trunc"} => nextid = seen_next

\* C10: the drains run under the lock of the ring, no chunk is appended between
\* the last read of a drain and its truncate, and no chunk is removed by a
\* truncate without having been written to a sink (the chunks before the
\* cursor of save_buffer apart).
C10_NothingDiscarded ==
    /\ CriticalSection
    /\ (cut \ skipped) \subseteq Written

\* the statements of the flushing block of run: lines 193 to 202
FlushBlock ==
    {"fl_test", "fl_wait", "ab", "ab_read", "ab_seek0", "ab_trunc", "fl_close", "fl_clear"}

\* the statements of save_buffer after its search for a header frame
AfterFind == {"sb_read", "sb_seek0", "sb_trunc", "sb_failed", "sb_ret"}

\* the statements of save_buffer at which the ring is as the search saw it
RingAsSearched == {"sb_read", "sb_seek0", "sb_trunc"}

\* C11: when the search of save_buffer finds no header frame in the ring, the
\* trigger event is skipped: no output sink is open, no output reference is
\* set, and the controller does not enter the flushing block.
C11_NoHeaderSkipped ==
    (pc \in AfterFind \cup FlushBlock /\ ~found) =>
        /\ OpenSinks = {}
        /\ out_ref = 0
        /\ pc \notin FlushBlock

\* the position of the oldest and of the newest header frame of the ring
OldestHeader == CHOOSE i \in Headers : \A j \in Headers : i <= j
NewestHeader == CHOOSE i \in Headers : \A j \in Headers : i >= j

\* the chunk of the ring the initial drain began at is the one at position i
BeginsAt(i) ==
    /\ Len(cycle) = Len(stream) - i + 1
    /\ cycle # <<>> /\ cycle[1] = stream[i].id
    /\ pc = "sb_read" => pos = i - 1 + Len(sinks[output].data)
    /\ pc # "sb_read" => sinks[output].data # <<>>
    /\ sinks[output].data # <<>> => sinks[output].data[1] = stream[i].id

\* C12 as stated: with header frames in the ring, save_buffer reads from the
\* most recent header frame on, and the first chunk written to the new sink is
\* that header frame.
C12_NewestHeaderAsStated ==
    (pc \in RingAsSearched /\ found) => BeginsAt(NewestHeader)

\* C12 amended: with header frames in the ring, save_buffer reads from the
\* oldest header frame on, and the first chunk written to the new sink is that
\* header frame; a sink that holds anything begins with a header frame.
C12_OldestHeader ==
    /\ (pc \in RingAsSearched /\ found) => BeginsAt(OldestHeader)
    /\ (pc \in RingAsSearched /\ ~found) => sinks[output].data = <<>>

\* C12 witness: the ring held two header frames, and the sink has received
\* both chunks, the older header frame first.
C12_Witness ==
    /\ pc = "sb_seek0"
    /\ found
    /\ Cardinality(Headers) = 2
    /\ sinks[output].data = <<stream[1].id, stream[2].id>>

\* C13: no failure of a recording event (an I/O error of the sink, an error of
\* the camera) ends the controller thread: it is never ended by an exception.
C13_FailureNeverEndsLoop == pc # "dead"

\* C14: once the session is inactive the controller thread eventually leaves
\* run, whatever statement it is at.
C14_RunExits == (~recording) ~> (pc \in {"done", "dead"})

ByDebounce ==
    /\ op' = "analyse"
    /\ pre' = trigger
    /\ trigger' = IF motion' /\ ~trigger /\ TrueEntries(last_frames') >= frames THEN TRUE
                  ELSE IF ~motion' /\ trigger /\ TrueEntries(last_frames') < frames THEN FALSE
                  ELSE trigger

\* the step is the second statement of __exit__, which sets the trigger
ByExit ==
    /\ main = "stopped" /\ main' = "exited"
    /\ op' = "exit"
    /\ trigger'

\* C16 as stated: the trigger changes only in an analyse call, by the
\* debounce rule; no other thread writes it.
C16_SoleWriterAsStated == [][trigger' # trigger => ByDebounce]_vars

\* C16 amended: the trigger changes only in an analyse call, by the debounce
\* rule, or in __exit__, where the main thread sets it.
C16_WritersOfTrigger == [][trigger' # trigger => (ByDebounce \/ ByExit)]_vars

\* C16 witness: the last analyse call left the trigger clear, and __exit__ has
\* set it.
C16_Witness ==
    /\ op = "exit"
    /\ frames >= 1
    /\ hist # <<>>
    /\ ~pre /\ ~motion
    /\ trigger

\* C17 as stated: the wait of run returns true exactly when the trigger is not
\* what it was when the wait was called.
C17_ReturnsChangeAsStated ==
    [][(pc = "wait" /\ pc' # pc) => ((pc' = "check") <=> (trigger # at_call))]_vars

\* C17 amended: the wait of run returns true exactly when the trigger is set as
\* it returns: at once when it was set at the call, and never for a trigger
\* that went from set to clear.
C17_ReturnsFlag ==
    [][(pc = "wait" /\ pc' # pc) =>
          /\ (pc' = "check") <=> trigger
          /\ (at_call /\ trigger) => pc' = "check"
          /\ (at_call /\ ~trigger) => pc' = "loop"]_vars

\* C17 witness: the wait has returned true for a trigger that was set when it
\* was called.
C17_Witness ==
    /\ pc = "check"
    /\ at_call
    /\ trigger

IsCleaned(f) ==
    \A c \in DOMAIN f :
        f[c] # 0 =>
            /\ c \in ActiveCells(f, motionlength)
            /\ Cardinality(RegionOf(f, motionlength, c))
                   >= Max2(LargestRegion(f, motionlength), 2)

\* C19: the overlay thread never fails on reading the field, and the field it
\* reads is always a cleaned one.
C19_OnlyCleanedObserved ==
    /\ ov = "run"
    /\ IsCleaned(ov_a)

\* C20: for frameThreshold >= 1, after every analyse call the trigger is set
\* exactly when the window is full and all its entries are true; a triggered
\* engine clears the trigger at the first frame without motion; the window
\* never holds more than frameThreshold entries.
C20_TriggerIffWindowTrue ==
    (op = "analyse" /\ frames >= 1) =>
        /\ trigger <=> (Len(last_frames) = frames /\ \A i \in DOMAIN last_frames : last_frames[i])
        /\ (pre /\ ~motion) => ~trigger
        /\ Len(last_frames) <= frames

\* C20 witness: with a threshold of two, the trigger rose at the second frame
\* with motion, held through a third, and fell at the first frame without.
C20_Witness ==
    /\ op = "analyse"
    /\ frames = 2
    /\ hist = <<TRUE, TRUE, TRUE, FALSE>>
    /\ Len(last_frames) = 2
    /\ pre
    /\ ~trigger
====
